---- MODULE Spec2Model ----
(***************************************************************************)
(* F1Predictor (src/f1_predictor.py): the orchestrator that holds a        *)
(* classifier, its feature-importance table and the loader's label         *)
(* encoders, builds the prediction-mode feature frame from the 2025 grid   *)
(* and results, ranks the drivers by win probability, and saves / loads    *)
(* the artifact bundle with joblib.                                        *)
(***************************************************************************)
EXTENDS Integers, Sequences, FiniteSets, TLC

VARIABLES
    model,               \* self.model
    feature_importance,  \* self.feature_importance
    label_encoders,      \* self.data_loader.label_encoders
    grid_2025,           \* self.grid_2025
    results_2025,        \* self.results_2025
    storage,             \* joblib files, by filename
    f1data,              \* the two CSV files under data_path
    build,               \* behaviour fixed by the installed numpy / scikit-learn
    op,                  \* the method called last
    args,                \* the arguments it reads (predict_2025_race never reads circuit_name)
    ret,                 \* what it returned or raised
    pred_df,             \* predict_2025_race's local feature frame, as far as it got
    last_predict,        \* history: the last predict call since the bundle was last assigned
    saved                \* history: the last save_model that wrote a file, and what the object held

vars == <<model, feature_importance, label_encoders, grid_2025, results_2025,
          storage, f1data, build, op, args, ret, pred_df, last_predict, saved>>

bundle == <<model, feature_importance, label_encoders>>
snapshot == <<grid_2025, results_2025>>

----------------------------------------------------------------------------
(* Bounds of the model *)

\* the largest grid of the snapshots the feature builder is checked on
MaxDrivers == 3
\* the number of distinct values predict_proba takes: 0, 1/(n-1), ..., 1
ProbLevels == 3

----------------------------------------------------------------------------
(* Python values *)

NoneV == [kind |-> "None"]
Raise(e) == [kind |-> "raise", exc |-> e]
Str(s) == [kind |-> "str", value |-> s]
DataFrame(r) == [kind |-> "DataFrame", rows |-> r]

\* v by value: F reads it any number of times and it is computed once
Let(v, F(_)) == CHOOSE r \in {F(w) : w \in {v}} : TRUE

\* floats that are quotients of integers, kept exact; NaN is 0/0
RECURSIVE GCD(_, _)
GCD(a, b) == Let(<<a, b>>, LAMBDA p : IF p[2] = 0 THEN p[1] ELSE GCD(p[2], p[1] % p[2]))
Abs(x) == IF x < 0 THEN -x ELSE x
Rat(n, d) ==
    Let(<<n, d>>, LAMBDA p :
        Let(GCD(Abs(p[1]), p[2]), LAMBDA g : [n |-> p[1] \div g, d |-> p[2] \div g]))
NaN == [n |-> 0, d |-> 0]
IsNaN(a) == a.d = 0
RInt(k) == [n |-> k, d |-> 1]
RAdd(a, b) == Let(<<a, b>>, LAMBDA p : Rat(p[1].n * p[2].d + p[2].n * p[1].d, p[1].d * p[2].d))
RSub(a, b) == Let(<<a, b>>, LAMBDA p : Rat(p[1].n * p[2].d - p[2].n * p[1].d, p[1].d * p[2].d))
RMul(a, b) == Let(<<a, b>>, LAMBDA p : Rat(p[1].n * p[2].n, p[1].d * p[2].d))
RDivInt(a, k) == Let(a, LAMBDA v : Rat(v.n, v.d * k))
RLess(a, b) == a.n * b.d < b.n * a.d

RECURSIVE RSumTo(_, _)
RSumTo(s, k) == IF k = 0 THEN RInt(0) ELSE RAdd(RSumTo(s, k - 1), s[k])

\* Series.mean()
Mean(s) == RDivInt(RSumTo(s, Len(s)), Len(s))

\* Series.std(), ddof = 1, kept as its square; one value has no deviation
Std2(s) ==
    IF Len(s) < 2 THEN NaN
    ELSE Let(Mean(s), LAMBDA m :
         Let([i \in DOMAIN s |-> RMul(RSub(s[i], m), RSub(s[i], m))], LAMBDA sq :
             RDivInt(RSumTo(sq, Len(sq)), Len(s) - 1)))

\* the rows of s in the order Before gives them (Before is a strict total
\* order on the indices of s)
OrderBy(s, Before(_, _)) ==
    Let([i \in 1..Len(s) |-> 1 + Cardinality({j \in 1..Len(s) : Before(j, i)})],
        LAMBDA pos : [k \in 1..Len(s) |-> s[CHOOSE i \in 1..Len(s) : pos[i] = k]])

----------------------------------------------------------------------------
(* pandas and numpy operations used by predict_2025_race *)

\* numpy's quicksort (an introsort) on equal keys: it keeps their order only
\* below its insertion-sort cutoff; which of two equal rows comes first is
\* fixed by the installed build
QuicksortTies == {"kept", "swapped"}

\* DataFrame.sort_values(col, ascending=False), kind = 'quicksort'
sort_values_desc(rows, Key(_), ties) ==
    OrderBy(rows, LAMBDA i, j :
        \/ RLess(Key(rows[j]), Key(rows[i]))
        \/ /\ Key(rows[i]) = Key(rows[j])
           /\ IF ties = "kept" THEN i < j ELSE j < i)

\* the values in descending order
sorted_desc(values) ==
    OrderBy(values, LAMBDA i, j :
        \/ RLess(values[j], values[i])
        \/ values[i] = values[j] /\ i < j)

\* Series.rank(ascending=False, method='min'): the values are sorted
\* descending and every group of equal values gets the position of its first
rank(values) ==
    Let(sorted_desc(values), LAMBDA sorted :
        [i \in DOMAIN values |->
            RInt(CHOOSE k \in DOMAIN sorted :
                     /\ sorted[k] = values[i]
                     /\ \A l \in 1..(k - 1) : sorted[l] # values[i])])

\* LabelEncoder.transform of one value: its index in classes_, or ValueError
transform(classes, value) ==
    IF \E k \in DOMAIN classes : classes[k] = value
    THEN (CHOOSE k \in DOMAIN classes : classes[k] = value) - 1
    ELSE -1

----------------------------------------------------------------------------
(* The data the model runs on *)

\* two entries of F1_CALENDAR_2025
Circuits == {"Japanese Grand Prix - Suzuka (6 Apr)", "Monaco Grand Prix - Monte Carlo (25 May)"}

\* save_model's and load_model's default filename, and one other
DefaultFile == "f1_model.joblib"
Filenames == {DefaultFile, "backup.joblib"}

\* the historical data a classifier and the encoders were fitted on: the data
\* of an earlier run of the application, or the data this run trains on
Datasets == {"prior", "hist"}

Classifier(ds) == [kind |-> "RandomForestClassifier", fitted_on |-> ds]
Unfitted == Classifier("unfitted")
Importance(ds) == [kind |-> "DataFrame", fitted_on |-> ds]
Encoders(ds) == [kind |-> "dict", fitted_on |-> ds]
NoEncoders == Encoders("none")

\* the keys of the label_encoders dict
EncoderKeys(le) ==
    IF le.fitted_on = "none" THEN {}
    ELSE {"nationality", "nationality_constructor", "country"}

\* LabelEncoder.classes_ of one encoder: the sorted categories of its data
Classes(le, col) ==
    IF col = "nationality"
    THEN IF le.fitted_on = "prior" THEN <<"British", "Dutch", "Monegasque">>
         ELSE <<"Australian", "British", "Dutch", "Monegasque">>
    ELSE IF col = "nationality_constructor"
    THEN IF le.fitted_on = "prior" THEN <<"British", "Italian">>
         ELSE <<"Austrian", "British", "Italian">>
    ELSE <<"Bahrain", "Italy", "Monaco">>

\* rows of f1_2025_grid.csv
DriverPool ==
    <<[driverId |-> "norris",     driver_name |-> "Lando Norris",    nationality |-> "British"],
      [driverId |-> "leclerc",    driver_name |-> "Charles Leclerc", nationality |-> "Monegasque"],
      [driverId |-> "piastri",    driver_name |-> "Oscar Piastri",   nationality |-> "Australian"],
      [driverId |-> "verstappen", driver_name |-> "Max Verstappen",  nationality |-> "Dutch"]>>

Teams == {"McLaren", "Ferrari"}
ConstructorNationality(team) == IF team = "McLaren" THEN "British" ELSE "Italian"

GridRow(i, team) ==
    [driverId |-> DriverPool[i].driverId, driver_name |-> DriverPool[i].driver_name,
     team_name |-> team, nationality |-> DriverPool[i].nationality,
     constructor_nationality |-> ConstructorNationality(team)]

\* the finishing positions one driver has in f1_2025_results.csv so far
ResultOptions == {<<>>, <<1>>, <<20, 1>>}

RECURSIVE ResultRows(_, _, _)
ResultRows(names, positions, i) ==
    IF i > Len(names) THEN <<>>
    ELSE [k \in 1..Len(positions[i]) |->
             [driver_name |-> names[i], position |-> positions[i][k], date |-> 10 * k + i]]
         \o ResultRows(names, positions, i + 1)

\* qualifying_results: None, or a dict from driverId to grid position
Dict(items) == [kind |-> "dict", items |-> items]
Overrides ==
    { NoneV,
      Dict(<<>>),
      Dict(<<<<"piastri", 1>>>>),
      Dict(<<<<"norris", 2>>, <<"sainz", 1>>>>) }

----------------------------------------------------------------------------
(* predict_2025_race, lines 84-158 *)

\* if qualifying_results:
Truthy(q) == q # NoneV /\ q.items # <<>>

\* the k-th row takes the k-th position given, whoever it was given for
RECURSIVE overrides_by_position(_, _, _, _)
overrides_by_position(grid, rows, items, k) ==
    IF k > Len(items) THEN grid
    ELSE Let([i \in DOMAIN grid |-> IF i = k THEN items[k][2] ELSE grid[i]],
             LAMBDA g : overrides_by_position(g, rows, items, k + 1))

\* for driver_id, position in qualifying_results.items():
\*     pred_df.loc[pred_df['driverId'] == driver_id, 'grid'] = position
RECURSIVE apply_overrides(_, _, _, _)
apply_overrides(grid, rows, items, k) ==
    IF k > Len(items) THEN grid
    ELSE Let([i \in DOMAIN grid |->
                 IF rows[i].driverId = items[k][1] THEN items[k][2] ELSE grid[i]],
             LAMBDA g : apply_overrides(g, rows, items, k + 1))

\* pred_df['grid'], lines 87-90
grid_column(rows, q) ==
    Let([i \in 1..Len(rows) |-> i], LAMBDA default :
        IF Truthy(q) THEN apply_overrides(default, rows, q.items, 1) ELSE default)

\* get_driver_recent_results, lines 64-70
get_driver_recent_results(results, driver_name) ==
    IF results = NoneV THEN NoneV
    ELSE Let(SelectSeq(results.rows, LAMBDA r : r.driver_name = driver_name), LAMBDA mine :
             DataFrame(OrderBy(mine, LAMBDA i, j : mine[i].date > mine[j].date)))

\* lambda x: max(26-x, 0)
Score(x) == IF 26 - x > 0 THEN 26 - x ELSE 0

\* pred_df['points_moving_avg'] of one driver, lines 96-103
points_moving_avg(results, driver_name) ==
    Let(get_driver_recent_results(results, driver_name), LAMBDA recent :
        IF recent # NoneV /\ recent.rows # <<>>
        THEN Let([k \in DOMAIN recent.rows |-> RInt(Score(recent.rows[k].position))], Mean)
        ELSE RInt(0))

\* pred_df.groupby('team_name').agg({'points_moving_avg': ['mean', 'std']})
constructor_stats(rows, pts) ==
    [team \in {rows[i].team_name : i \in DOMAIN rows} |->
        Let(SelectSeq([i \in DOMAIN rows |-> i], LAMBDA i : rows[i].team_name = team),
            LAMBDA idx :
        Let([k \in DOMAIN idx |-> pts[idx[k]]], LAMBDA vals :
            [constructor_points_mean |-> Mean(vals),
             constructor_points_std |-> Std2(vals)]))]

\* pred_df['constructor_points_mean'].rank(ascending=False, method='min'),
\* line 118: taken over the merged frame, one row per driver
constructor_position_mean(rows, cmean) == rank(cmean)

\* pred_df['qual_position_avg'] = pred_df['grid'], line 93
qual_position_avg(grid) == grid

\* method='dense': equal values share a rank and the next rank follows on
position_championship_dense(pts) ==
    [i \in DOMAIN pts |->
        RInt(1 + Cardinality({pts[j] : j \in {k \in DOMAIN pts : RLess(pts[i], pts[k])}}))]

\* pred_df['position_championship'], line 109
position_championship(pts) == rank(pts)

\* the frame after line 118
feature_frame(rows, results, q) ==
    Let(grid_column(rows, q), LAMBDA grid :
    Let([i \in DOMAIN rows |-> points_moving_avg(results, rows[i].driver_name)], LAMBDA pts :
    Let(constructor_stats(rows, pts), LAMBDA stats :
    Let([i \in DOMAIN rows |-> stats[rows[i].team_name].constructor_points_mean], LAMBDA cmean :
    Let(<<qual_position_avg(grid), position_championship(pts),
          constructor_position_mean(rows, cmean)>>, LAMBDA col :
        [i \in DOMAIN rows |->
           [driverId |-> rows[i].driverId,
            driver_name |-> rows[i].driver_name,
            team_name |-> rows[i].team_name,
            nationality |-> rows[i].nationality,
            constructor_nationality |-> rows[i].constructor_nationality,
            grid |-> grid[i],
            qual_position_avg |-> col[1][i],
            points_moving_avg |-> pts[i],
            circuit_wins |-> 0,
            points_championship |-> pts[i],
            position_championship |-> col[2][i],
            constructor_points_mean |-> cmean[i],
            constructor_points_std |-> stats[rows[i].team_name].constructor_points_std,
            constructor_position_mean |-> col[3][i]]])))))

\* lines 121-128: the encoded columns of one row; a missing key is a missing
\* column (-2), an unseen category makes transform raise (-1)
encoded(le, row) ==
    [nationality_encoded |->
         IF "nationality" \in EncoderKeys(le)
         THEN transform(Classes(le, "nationality"), row.nationality) ELSE -2,
     nationality_constructor_encoded |->
         IF "nationality_constructor" \in EncoderKeys(le)
         THEN transform(Classes(le, "nationality_constructor"), row.constructor_nationality)
         ELSE -2,
     country_encoded |-> IF "country" \in EncoderKeys(le) THEN 0 ELSE -2]

\* RandomForestClassifier.predict_proba(X)[:, 1] of one row: a fixed function
\* of the fitted forest and of the twelve features, in the order of lines 131-144
predict_proba(clf, row, enc) ==
    Rat(( (IF clf.fitted_on = "prior" THEN 1 ELSE 2) * row.grid
          + row.qual_position_avg + row.points_moving_avg.n
          + row.circuit_wins + row.points_championship.d
          + row.position_championship.n + row.constructor_points_mean.n
          + (IF IsNaN(row.constructor_points_std) THEN 0 ELSE row.constructor_points_std.n)
          + 2 * row.constructor_position_mean.n + enc.nationality_encoded
          + enc.nationality_constructor_encoded + enc.country_encoded ) % ProbLevels,
        ProbLevels - 1)

\* scikit-learn's input validation: before 1.4 a forest rejects NaN in X
NanInputs == {"rejected", "accepted"}

\* results.sort_values('Win Probability', ascending=False), line 158
ranked(table, bld) ==
    sort_values_desc(table, LAMBDA r : r.WinProbability, bld.quicksort_ties)

\* lines 121-158 on the feature frame df: what the call returns or raises
scored(clf, le, df, bld) ==
    Let([i \in DOMAIN df |-> encoded(le, df[i])], LAMBDA enc :
        IF \E i \in DOMAIN df : enc[i].nationality_encoded = -1
                                   \/ enc[i].nationality_constructor_encoded = -1
        THEN Raise("ValueError")
        ELSE IF \E i \in DOMAIN df : enc[i].country_encoded = -2
        THEN Raise("KeyError")
        ELSE IF clf.fitted_on = "unfitted"
        THEN Raise("NotFittedError")
        ELSE IF bld.nan_input = "rejected"
                /\ \E i \in DOMAIN df : IsNaN(df[i].constructor_points_std)
        THEN Raise("ValueError")
        ELSE Let([i \in DOMAIN df |->
                     [Driver |-> df[i].driver_name, Team |-> df[i].team_name,
                      Grid |-> df[i].grid,
                      WinProbability |-> predict_proba(clf, df[i], enc[i]),
                      ChampionshipPoints |-> df[i].points_championship]],
                 LAMBDA table : DataFrame(ranked(table, bld))))

\* lines 84-158: what the call returns or raises, and the feature frame
predict_outcome(clf, le, g, results, bld, q) ==
    Let(feature_frame(g.rows, results, q), LAMBDA df :
        [ret |-> scored(clf, le, df, bld), pred_df |-> DataFrame(df)])

----------------------------------------------------------------------------
(* joblib files *)

Absent == [kind |-> "absent"]
Corrupt == [kind |-> "corrupt"]
Pickle(obj) == [kind |-> "pickle", obj |-> obj]

\* the dict without the encoders
model_data_without_encoders(m, fi, le) == [model |-> m, feature_importance |-> fi]

\* the dict save_model builds, lines 211-215
model_data(m, fi, le) == [model |-> m, feature_importance |-> fi, label_encoders |-> le]

\* what an earlier run, or an earlier version of the application, left behind
PriorBundle == model_data(Classifier("prior"), Importance("prior"), Encoders("prior"))
LeftBehind ==
    { Absent, Corrupt,
      Pickle(PriorBundle),
      Pickle([model |-> Classifier("prior")]),
      Pickle([model |-> Classifier("prior"), feature_importance |-> Importance("prior")]) }

\* load_model, lines 220-224: the three fields after the call and what it
\* returned or raised; each assignment takes effect before the next lookup
load_model_effect(content, filename, m, fi, le) ==
    LET same == [model |-> m, feature_importance |-> fi, label_encoders |-> le]
    IN IF content.kind = "absent"
       THEN same @@ [ret |-> Raise("FileNotFoundError")]
       ELSE IF content.kind = "corrupt"
       THEN same @@ [ret |-> Raise("UnpicklingError")]
       ELSE LET d == content.obj
            IN IF "model" \notin DOMAIN d
               THEN same @@ [ret |-> Raise("KeyError")]
               ELSE IF "feature_importance" \notin DOMAIN d
               THEN [model |-> d.model, feature_importance |-> fi, label_encoders |-> le,
                     ret |-> Raise("KeyError")]
               ELSE IF "label_encoders" \notin DOMAIN d
               THEN [model |-> d.model, feature_importance |-> d.feature_importance,
                     label_encoders |-> le, ret |-> Raise("KeyError")]
               ELSE [model |-> d.model, feature_importance |-> d.feature_importance,
                     label_encoders |-> d.label_encoders,
                     ret |-> Str("Model loaded from " \o filename)]

\* load_2025_data, lines 58-62: the grid is read first; a failure of either
\* read is printed and leaves the fields not yet assigned at None
load_2025_data(files) ==
    IF files.grid = NoneV THEN [grid_2025 |-> NoneV, results_2025 |-> NoneV]
    ELSE [grid_2025 |-> files.grid, results_2025 |-> files.results]

\* predict_2025_race as a function of the object: what it returns or raises
predict_result(m, le, g, results, bld, q) ==
    IF m = NoneV \/ g = NoneV
    THEN [ret |-> NoneV, pred_df |-> NoneV]
    ELSE predict_outcome(m, le, g, results, bld, q)

CallArgs == Circuits \X Overrides

----------------------------------------------------------------------------
(* The methods of F1Predictor *)

NoArgs == [kind |-> "none"]

\* F1Predictor(), lines 42-54 (main() constructs one on every run of the script)
F1Predictor ==
    LET data == load_2025_data(f1data)
        loaded == load_model_effect(storage[DefaultFile], DefaultFile,
                                    NoneV, NoneV, NoEncoders)
    IN /\ model' = loaded.model
       /\ feature_importance' = loaded.feature_importance
       /\ label_encoders' = loaded.label_encoders
       /\ grid_2025' = data.grid_2025
       /\ results_2025' = data.results_2025
       /\ op' = "F1Predictor"
       /\ args' = NoArgs
       /\ ret' = NoneV
       /\ pred_df' = NoneV
       /\ last_predict' = NoneV
       /\ saved' = IF saved = NoneV THEN NoneV ELSE [saved EXCEPT !.fresh = TRUE]
       /\ UNCHANGED <<storage, f1data, build>>

\* the ranking written back to self.grid_2025: the frame is not copied and
\* is sorted in place
predict_2025_race_in_place(circuit_name, qualifying_results) ==
    \E r \in {predict_result(model, label_encoders, grid_2025, results_2025, build,
                                qualifying_results)},
       a \in {[qualifying_results |-> qualifying_results]} :
       /\ op' = "predict_2025_race"
       /\ args' = a
       /\ ret' = r.ret
       /\ pred_df' = r.pred_df
       /\ last_predict' = [args |-> a, ret |-> r.ret]
       /\ grid_2025' = IF r.ret.kind = "DataFrame"
                       THEN DataFrame([k \in DOMAIN r.ret.rows |->
                                grid_2025.rows[CHOOSE i \in DOMAIN grid_2025.rows :
                                    grid_2025.rows[i].driver_name = r.ret.rows[k].Driver]])
                       ELSE grid_2025
       /\ UNCHANGED <<model, feature_importance, label_encoders, results_2025,
                      storage, f1data, build, saved>>

\* predict_2025_race, lines 72-158
predict_2025_race(circuit_name, qualifying_results) ==
    \E r \in {predict_result(model, label_encoders, grid_2025, results_2025, build,
                                qualifying_results)},
       a \in {[qualifying_results |-> qualifying_results]} :
       /\ op' = "predict_2025_race"
       /\ args' = a
       /\ ret' = r.ret
       /\ pred_df' = r.pred_df
       /\ last_predict' = [args |-> a, ret |-> r.ret]
       /\ UNCHANGED <<model, feature_importance, label_encoders, grid_2025, results_2025,
                      storage, f1data, build, saved>>

\* the stage of train_model that raises, if any
TrainOutcomes == {"prepare_features", "fit", "evaluate", "ok"}

\* data_loader.prepare_features(): fits the loader's encoders on the
\* historical data and returns the six splits, or raises
prepare_features(le, outcome) ==
    IF outcome = "prepare_features" THEN le ELSE Encoders("hist")

\* train_model, lines 160-207
train_model(outcome) ==
    /\ label_encoders' = prepare_features(label_encoders, outcome)
    /\ model' = IF outcome = "prepare_features" THEN model
                ELSE IF outcome = "fit" THEN Unfitted
                ELSE Classifier("hist")
    /\ feature_importance' = IF outcome \in {"prepare_features", "fit"}
                             THEN feature_importance
                             ELSE Importance("hist")
    /\ op' = "train_model"
    /\ args' = NoArgs
    /\ ret' = IF outcome = "ok" THEN [kind |-> "metrics"] ELSE Raise(outcome)
    /\ pred_df' = NoneV
    /\ last_predict' = NoneV
    /\ UNCHANGED <<grid_2025, results_2025, storage, f1data, build, saved>>

\* save_model without its test of self.model
save_model_unguarded(filename) ==
    /\ op' = "save_model"
    /\ args' = [filename |-> filename]
    /\ pred_df' = NoneV
    /\ storage' = [storage EXCEPT ![filename] =
                      Pickle(model_data(model, feature_importance, label_encoders))]
    /\ ret' = Str("Model saved to " \o filename)
    /\ saved' = [filename |-> filename, bundle |-> bundle, snapshot |-> snapshot,
                  fresh |-> FALSE]
    /\ UNCHANGED <<model, feature_importance, label_encoders, grid_2025, results_2025,
                   f1data, build, last_predict>>

\* save_model, lines 209-217
save_model(filename) ==
    /\ op' = "save_model"
    /\ args' = [filename |-> filename]
    /\ pred_df' = NoneV
    /\ IF model # NoneV
       THEN /\ storage' = [storage EXCEPT ![filename] =
                              Pickle(model_data(model, feature_importance, label_encoders))]
            /\ ret' = Str("Model saved to " \o filename)
            /\ saved' = [filename |-> filename, bundle |-> bundle, snapshot |-> snapshot,
                          fresh |-> FALSE]
       ELSE /\ ret' = NoneV
            /\ UNCHANGED <<storage, saved>>
    /\ UNCHANGED <<model, feature_importance, label_encoders, grid_2025, results_2025,
                   f1data, build, last_predict>>

\* load_model, lines 219-224
load_model(filename) ==
    LET loaded == load_model_effect(storage[filename], filename,
                                    model, feature_importance, label_encoders)
    IN /\ model' = loaded.model
       /\ feature_importance' = loaded.feature_importance
       /\ label_encoders' = loaded.label_encoders
       /\ op' = "load_model"
       /\ args' = [filename |-> filename]
       /\ ret' = loaded.ret
       /\ pred_df' = NoneV
       /\ last_predict' = NoneV
       /\ UNCHANGED <<grid_2025, results_2025, storage, f1data, build, saved>>

----------------------------------------------------------------------------
(* The orchestrator's life: constructed by main(), then called in any order *)

Builds == [quicksort_ties : QuicksortTies, nan_input : NanInputs]

\* a two-team grid with both McLaren drivers level on points
SmallGrid == <<GridRow(1, "McLaren"), GridRow(2, "Ferrari"), GridRow(3, "McLaren")>>
SmallResults == ResultRows(<<"Lando Norris", "Charles Leclerc", "Oscar Piastri">>,
                           <<<<1, 20>>, <<20>>, <<20, 1>>>>, 1)

CsvFiles ==
    { [grid |-> NoneV, results |-> NoneV],
      [grid |-> DataFrame(SmallGrid), results |-> DataFrame(SmallResults)] }

Init ==
    /\ model = NoneV
    /\ feature_importance = NoneV
    /\ label_encoders = NoEncoders
    /\ grid_2025 = NoneV
    /\ results_2025 = NoneV
    /\ storage \in [Filenames -> LeftBehind]
    /\ storage["backup.joblib"] = Absent
    /\ f1data \in CsvFiles
    /\ build \in Builds
    /\ op = "start"
    /\ args = NoArgs
    /\ ret = NoneV
    /\ pred_df = NoneV
    /\ last_predict = NoneV
    /\ saved = NoneV

Next ==
    \/ F1Predictor
    \/ op # "start" /\ \E a \in CallArgs : predict_2025_race(a[1], a[2])
    \/ op # "start" /\ \E outcome \in TrainOutcomes : train_model(outcome)
    \/ op # "start" /\ \E f \in Filenames : save_model(f)
    \/ op # "start" /\ \E f \in Filenames : load_model(f)

Spec == Init /\ [][Next]_vars

----------------------------------------------------------------------------
(* predict_2025_race over the season snapshots: an orchestrator constructed
   over each snapshot, holding the bundle it loaded from the default file *)

\* the grids of 1..MaxDrivers drivers, every driver in either team
Grids ==
    UNION { { [i \in 1..n |-> GridRow(i, teams[i])] : teams \in [1..n -> Teams] }
            : n \in 1..MaxDrivers }

\* the results so far of the drivers of a grid, or no results file
ResultsFor(g) ==
    { DataFrame(ResultRows([i \in DOMAIN g |-> g[i].driver_name], positions, 1))
        : positions \in [DOMAIN g -> ResultOptions] } \cup {NoneV}

InitPredict ==
    /\ \E ds \in {"hist"} :
          /\ model = Classifier(ds)
          /\ feature_importance = Importance(ds)
          /\ label_encoders = Encoders(ds)
          /\ storage = [f \in Filenames |->
                           IF f = DefaultFile
                           THEN Pickle(model_data(Classifier(ds), Importance(ds), Encoders(ds)))
                           ELSE Absent]
    /\ \E g \in Grids :
          /\ grid_2025 = DataFrame(g)
          /\ results_2025 \in ResultsFor(g)
    /\ f1data = [grid |-> grid_2025, results |-> results_2025]
    /\ build \in Builds
    /\ op = "F1Predictor"
    /\ args = NoArgs
    /\ ret = NoneV
    /\ pred_df = NoneV
    /\ last_predict = NoneV
    /\ saved = NoneV

NextPredict == \E a \in CallArgs : predict_2025_race(a[1], a[2])

SpecPredict == InitPredict /\ [][NextPredict]_vars

----------------------------------------------------------------------------
(* The claims *)

AllKeys == {"model", "feature_importance", "label_encoders"}

\* joblib.load succeeds on it and it holds the three entries
IsBundle(content) == content.kind = "pickle" /\ DOMAIN content.obj = AllKeys

\* C1: load_model(source) is all-or-nothing. Either it returns and the
\* classifier, the feature-importance table and the encoders are the three
\* values of the file's bundle, or it raises and all three are what they were
\* before the call.
C1_LoadAllOrNothing ==
    [][op' = "load_model" =>
          \/ /\ ret'.kind = "str"
             /\ IsBundle(storage[args'.filename])
             /\ model' = storage[args'.filename].obj.model
             /\ feature_importance' = storage[args'.filename].obj.feature_importance
             /\ label_encoders' = storage[args'.filename].obj.label_encoders
          \/ /\ ret'.kind = "raise"
             /\ UNCHANGED bundle]_vars

\* C2: while no classifier is held, predict_2025_race returns None and
\* save_model returns None and writes no file; neither raises and neither
\* changes the object, whatever the circuit, the overrides or the filename.
C2_UntrainedCallsAreHarmless ==
    [][(model = NoneV /\ op' \in {"predict_2025_race", "save_model"}) =>
          /\ ret' = NoneV
          /\ UNCHANGED <<bundle, snapshot, storage>>]_vars

\* an object that holds no classifier and has a grid was asked for a
\* prediction, got None, and was then asked to save, which returned None
C2_Witness ==
    /\ op = "save_model"
    /\ ret = NoneV
    /\ model = NoneV
    /\ grid_2025 # NoneV
    /\ last_predict # NoneV
    /\ last_predict.ret = NoneV
    /\ last_predict.args.qualifying_results # NoneV

\* C3: when the load at construction fails (the default file is missing,
\* corrupt or lacks an entry), construction completes without an error, no
\* classifier is held, and a following predict returns None.
C3_FailedStartupLoadLeavesUntrained ==
    (op = "F1Predictor" /\ ~IsBundle(storage[DefaultFile])) =>
        /\ ret = NoneV
        /\ model = NoneV
        /\ \A a \in CallArgs :
              predict_result(model, label_encoders, grid_2025, results_2025, build,
                             a[2]).ret = NoneV

\* C4: after a save_model(d) by an object that holds a classifier, load_model(d)
\* on an object constructed afterwards over the same snapshot returns, leaves
\* it with the same classifier, feature-importance table and encoders, and
\* every predict gives on it what it gives on the object that saved.
C4_SaveLoadRoundTrip ==
    ( /\ op = "load_model"
      /\ saved # NoneV
      /\ saved.fresh
      /\ args.filename = saved.filename
      /\ snapshot = saved.snapshot ) =>
        /\ ret.kind = "str"
        /\ bundle = saved.bundle
        /\ \A a \in CallArgs :
              predict_result(model, label_encoders, grid_2025, results_2025, build,
                             a[2]).ret
              = predict_result(saved.bundle[1], saved.bundle[3], saved.snapshot[1],
                               saved.snapshot[2], build, a[2]).ret

\* the bundle trained in one object and saved under the other filename was
\* loaded by an object constructed after the save
C4_Witness ==
    /\ op = "load_model"
    /\ ret.kind = "str"
    /\ saved # NoneV
    /\ saved.fresh
    /\ args.filename = saved.filename
    /\ args.filename # DefaultFile
    /\ model = Classifier("hist")
    /\ bundle = saved.bundle
    /\ grid_2025 # NoneV

\* C5: predict_2025_race and save_model leave the classifier, the
\* feature-importance table, the encoders and the snapshot as they are, and a
\* predict with the overrides of an earlier one, with nothing but predicts
\* and saves in between, returns what the earlier one returned.
C5_PredictAndSaveKeepTheBundle ==
    [][op' \in {"predict_2025_race", "save_model"} =>
          /\ UNCHANGED <<bundle, snapshot>>
          /\ (op' = "predict_2025_race" /\ last_predict # NoneV
                 /\ last_predict.args = args') => ret' = last_predict.ret]_vars

\* a predict returned a table, and a save that wrote a file followed it
C5_Witness ==
    /\ op = "save_model"
    /\ ret.kind = "str"
    /\ last_predict # NoneV
    /\ last_predict.ret.kind = "DataFrame"
    /\ Len(last_predict.ret.rows) > 1

\* the place of a driver in the grid
RowOf(name) == CHOOSE i \in DOMAIN grid_2025.rows : grid_2025.rows[i].driver_name = name

\* C6: the table predict returns has one row for every driver of the
\* snapshot and no other, in non-increasing order of win probability, and
\* drivers of equal win probability are in the order of the snapshot.
C6_RankedAndStable ==
    (op = "predict_2025_race" /\ ret.kind = "DataFrame") =>
        /\ Len(ret.rows) = Len(grid_2025.rows)
        /\ \A i \in DOMAIN grid_2025.rows :
              Cardinality({k \in DOMAIN ret.rows :
                  ret.rows[k].Driver = grid_2025.rows[i].driver_name}) = 1
        /\ \A k, l \in DOMAIN ret.rows :
              k < l =>
                /\ ~RLess(ret.rows[k].WinProbability, ret.rows[l].WinProbability)
                /\ ret.rows[k].WinProbability = ret.rows[l].WinProbability
                      => RowOf(ret.rows[k].Driver) < RowOf(ret.rows[l].Driver)

\* C7: the i-th driver of the snapshot gets grid position i unless the
\* overrides have an entry for the driver's id, and then the position of that
\* entry; qual_position_avg is the grid position.
C7_GridAssignment ==
    (op = "predict_2025_race" /\ pred_df # NoneV) =>
        \A i \in DOMAIN pred_df.rows :
            /\ pred_df.rows[i].grid =
                  IF /\ args.qualifying_results # NoneV
                     /\ \E k \in DOMAIN args.qualifying_results.items :
                           args.qualifying_results.items[k][1] = pred_df.rows[i].driverId
                  THEN args.qualifying_results.items[
                           CHOOSE k \in DOMAIN args.qualifying_results.items :
                               args.qualifying_results.items[k][1]
                                   = pred_df.rows[i].driverId][2]
                  ELSE i
            /\ pred_df.rows[i].qual_position_avg = pred_df.rows[i].grid

\* an override moved one driver onto the default position of another, who kept it
C7_Witness ==
    /\ op = "predict_2025_race"
    /\ pred_df # NoneV
    /\ \E i, j \in DOMAIN pred_df.rows :
          /\ i # j
          /\ pred_df.rows[i].grid = j
          /\ pred_df.rows[j].grid = j

\* C8: position_championship of a driver is 1 plus the number of drivers of
\* the snapshot with strictly more points_championship.
C8_CompetitionRanking ==
    (op = "predict_2025_race" /\ pred_df # NoneV) =>
        \A i \in DOMAIN pred_df.rows :
            pred_df.rows[i].position_championship =
                RInt(1 + Cardinality({j \in DOMAIN pred_df.rows :
                        RLess(pred_df.rows[i].points_championship,
                              pred_df.rows[j].points_championship)}))

\* two drivers level on points are both first and a driver behind them is third
C8_Witness ==
    /\ op = "predict_2025_race"
    /\ pred_df # NoneV
    /\ \E i, j, k \in DOMAIN pred_df.rows :
          /\ i # j
          /\ pred_df.rows[i].points_championship = pred_df.rows[j].points_championship
          /\ RLess(pred_df.rows[k].points_championship, pred_df.rows[i].points_championship)
          /\ pred_df.rows[i].position_championship = RInt(1)
          /\ pred_df.rows[j].position_championship = RInt(1)
          /\ pred_df.rows[k].position_championship = RInt(3)

\* C9: constructor_position_mean of a driver is 1 plus the number of teams
\* whose mean points_moving_avg is strictly greater than that of the driver's
\* team.
C9_ConstructorRankAmongTeams ==
    (op = "predict_2025_race" /\ pred_df # NoneV) =>
        \A i \in DOMAIN pred_df.rows :
            pred_df.rows[i].constructor_position_mean =
                RInt(1 + Cardinality({pred_df.rows[j].team_name :
                        j \in {k \in DOMAIN pred_df.rows :
                                 RLess(pred_df.rows[i].constructor_points_mean,
                                       pred_df.rows[k].constructor_points_mean)}}))

\* C10: in every reachable state the object holds no classifier, or a fitted
\* classifier with the feature-importance table and the encoders of the same
\* fit.
C10_BundleConsistent ==
    \/ model = NoneV
    \/ \E ds \in Datasets :
          /\ model = Classifier(ds)
          /\ feature_importance = Importance(ds)
          /\ label_encoders = Encoders(ds)

====
